---- MODULE Spec2Model ----
(***************************************************************************)
(* Nova Launcher Desktop: the Tauri entry point of                         *)
(* packages/launcher-desktop/src-tauri/src/lib.rs.                         *)
(*                                                                         *)
(* Two things live in that file: the command greet, a pure formatting      *)
(* function, and run(), which builds the application (five plugins, one    *)
(* invoke handler), hands control to the framework's run loop and panics   *)
(* if the framework reports an error.                                      *)
(*                                                                         *)
(* A string is a sequence of one-character strings, so that formatting is  *)
(* computed character by character as format! does it.                     *)
(***************************************************************************)
EXTENDS Naturals, Sequences, FiniteSets

(***************************************************************************)
(* Bounds of the model.                                                    *)
(***************************************************************************)
\* longest name drawn from Alphabet
MaxLen == 2
\* front-end invocations in one run of the application
MaxCalls == 2

(***************************************************************************)
(* Strings.                                                                *)
(***************************************************************************)
\* the format string of lib.rs:5
Template ==
    << "H", "e", "l", "l", "o", ",", " ", "{", "}", "!", " ",
       "W", "e", "l", "c", "o", "m", "e", " ", "t", "o", " ",
       "N", "o", "v", "a", " ",
       "L", "a", "u", "n", "c", "h", "e", "r", "!" >>

\* the message of lib.rs:18
ExpectMsg == "error while running tauri application"

\* characters the bounded names are built from: the two characters format!
\* gives a meaning to
Alphabet == {"{", "}"}

RECURSIVE StringsOfLen(_)
StringsOfLen(n) ==
    IF n = 0 THEN { <<>> }
    ELSE { Append(s, c) : s \in StringsOfLen(n - 1), c \in Alphabet }

BoundedNames == UNION { StringsOfLen(n) : n \in 0..MaxLen }

\* names beyond the alphabet: an ordinary one, the punctuation of the
\* greeting, surrounding blanks, lower case, a placeholder with text around
\* it, the greeting's own format string
SpecialNames ==
    { << "A" >>,
      << "!" >>,
      << " ", "A", " " >>,
      << "a" >>,
      << "A", "{", "}", "!" >>,
      Template }

Names == BoundedNames \cup SpecialNames

(***************************************************************************)
(* format!: the template is scanned left to right; "{{" and "}}" are the   *)
(* escapes of a brace, "{}" takes the next argument and writes it as it    *)
(* is (Display of str), every other character is copied.  Text written     *)
(* for an argument is never scanned again.  A malformed template or a      *)
(* wrong number of arguments has no output (ok = FALSE).                   *)
(***************************************************************************)
RECURSIVE format_from(_, _, _, _, _)
format_from(t, i, args, k, acc) ==
    IF i > Len(t)
    THEN [ok |-> (k = Len(args) + 1), out |-> acc]
    ELSE IF t[i] = "{"
    THEN IF i + 1 > Len(t)
         THEN [ok |-> FALSE, out |-> acc]
         ELSE IF t[i + 1] = "{"
         THEN format_from(t, i + 2, args, k, Append(acc, "{"))
         ELSE IF t[i + 1] = "}" /\ k <= Len(args)
         THEN format_from(t, i + 2, args, k + 1, acc \o args[k])
         ELSE [ok |-> FALSE, out |-> acc]
    ELSE IF t[i] = "}"
    THEN IF i + 1 <= Len(t) /\ t[i + 1] = "}"
         THEN format_from(t, i + 2, args, k, Append(acc, "}"))
         ELSE [ok |-> FALSE, out |-> acc]
    ELSE format_from(t, i + 1, args, k, Append(acc, t[i]))

format(t, args) == format_from(t, 1, args, 1, <<>>)

(***************************************************************************)
(* State.                                                                  *)
(*   pc         where run() stands (lib.rs:10-18)                          *)
(*   plugins    the builder's plugin store, in registration order          *)
(*   handlers   the commands the registered invoke handler answers         *)
(*   runResult  what the framework's run gave back: "none", "Ok", "Err"    *)
(*   panicMsg   the panic message of run(), "" while it has not panicked   *)
(*   invoked    how many invocations the front-end has sent                *)
(*   pending    invocations received and not yet answered                  *)
(*   responses  the answers given to the front-end                         *)
(***************************************************************************)
VARIABLES pc, plugins, handlers, runResult, panicMsg, invoked, pending, responses

vars == << pc, plugins, handlers, runResult, panicMsg, invoked, pending, responses >>

appState == << pc, plugins, handlers, runResult, panicMsg >>

\* commands a front-end may try; only the first is defined by lib.rs
Commands == {"greet", "check_update", "read_file"}

(***************************************************************************)
(* greet (lib.rs:3-6).                                                     *)
(***************************************************************************)
Prefix == << "H", "e", "l", "l", "o", ",", " " >>

Suffix ==
    << "!", " ", "W", "e", "l", "c", "o", "m", "e", " ", "t", "o", " ",
       "N", "o", "v", "a", " ",
       "L", "a", "u", "n", "c", "h", "e", "r", "!" >>

IsBlank(c) == c = " "

RECURSIVE TrimStart(_)
TrimStart(s) ==
    IF s # <<>> /\ IsBlank(Head(s)) THEN TrimStart(Tail(s)) ELSE s

RECURSIVE TrimEnd(_)
TrimEnd(s) ==
    IF s # <<>> /\ IsBlank(s[Len(s)]) THEN TrimEnd(SubSeq(s, 1, Len(s) - 1)) ELSE s

\* the name spliced into the format string, which is then scanned as a whole
greetRescan(name) == format(Prefix \o name \o Suffix, <<>>)

\* an empty name refused
greetValidated(name) ==
    IF name = <<>> THEN [ok |-> FALSE, out |-> <<>>]
    ELSE format(Template, <<name>>)

\* a name greeted before is greeted differently
greetRemembering(name) ==
    IF \E r \in responses : r.cmd = "greet" /\ r.name = name
    THEN format(<< "H", "i", " ", "a", "g", "a", "i", "n", ",", " ", "{", "}", "!" >>,
                <<name>>)
    ELSE format(Template, <<name>>)

\* the name trimmed of surrounding blanks
greetTrim(name) == format(Template, << TrimEnd(TrimStart(name)) >>)

greet(name) == format(Template, <<name>>)

(***************************************************************************)
(* The builder calls of run() (lib.rs:10-18).                              *)
(***************************************************************************)
pluginPrepend(store, p) == <<p>> \o store

\* Builder::plugin: the plugin joins the store after those already there
plugin(store, p) == Append(store, p)

generate_handler_more == {"greet", "check_update"}

\* generate_handler![greet]
generate_handler == {"greet"}

expectIgnore(result) == [pc |-> "returned", msg |-> ""]

\* Result::expect: the value on Ok, a panic with the message on Err
expect(result) ==
    IF result = "Ok"
    THEN [pc |-> "returned", msg |-> ""]
    ELSE [pc |-> "panicked", msg |-> ExpectMsg]

CanDispatchAnytime == TRUE

\* the invoke handler is called from the run loop only
CanDispatch == pc = "running"

\* the answer of the application to one invocation
Dispatch(req) ==
    IF req.cmd \notin handlers
    THEN [kind |-> "not_found", value |-> <<>>]
    ELSE IF req.cmd = "greet"
    THEN LET r == greet(req.name)
         IN  [kind |-> IF r.ok THEN "ok" ELSE "err", value |-> r.out]
    ELSE [kind |-> "ok", value |-> <<>>]

Init ==
    /\ pc = "plugin_opener"
    /\ plugins = <<>>
    /\ handlers = {}
    /\ runResult = "none"
    /\ panicMsg = ""
    /\ invoked = 0
    /\ pending = {}
    /\ responses = {}

Register(at, p, next) ==
    /\ pc = at
    /\ plugins' = plugin(plugins, p)
    /\ pc' = next
    /\ UNCHANGED << handlers, runResult, panicMsg, invoked, pending, responses >>

PluginOpener == Register("plugin_opener", "opener", "plugin_fs")

PluginFs == Register("plugin_fs", "fs", "plugin_updater")

PluginUpdater == Register("plugin_updater", "updater", "plugin_process")

PluginProcess == Register("plugin_process", "process", "plugin_upload")

PluginUpload == Register("plugin_upload", "upload", "invoke_handler")

InvokeHandler ==
    /\ pc = "invoke_handler"
    /\ handlers' = generate_handler
    /\ pc' = "run"
    /\ UNCHANGED << plugins, runResult, panicMsg, invoked, pending, responses >>

\* Builder::run: building the application fails, run gives back Err
RunStartupFails ==
    /\ pc = "run"
    /\ runResult' = "Err"
    /\ pc' = "expect"
    /\ UNCHANGED << plugins, handlers, panicMsg, invoked, pending, responses >>

\* Builder::run: the application is built and its run loop entered
RunEnterLoop ==
    /\ pc = "run"
    /\ pc' = "running"
    /\ UNCHANGED << plugins, handlers, runResult, panicMsg, invoked, pending, responses >>

\* the run loop ends and Builder::run gives back Ok
RunLoopReturns ==
    /\ pc = "running"
    /\ runResult' = "Ok"
    /\ pc' = "expect"
    /\ UNCHANGED << plugins, handlers, panicMsg, invoked, pending, responses >>

\* the run loop ends by exiting the process; run() never gets control back
RunLoopExitsProcess ==
    /\ pc = "running"
    /\ pc' = "exited"
    /\ UNCHANGED << plugins, handlers, runResult, panicMsg, invoked, pending, responses >>

Expect ==
    /\ pc = "expect"
    /\ pc' = expect(runResult).pc
    /\ panicMsg' = expect(runResult).msg
    /\ UNCHANGED << plugins, handlers, runResult, invoked, pending, responses >>

\* the front-end, which exists while the run loop runs, sends an invocation
Invoke(cmd, name) ==
    /\ pc = "running"
    /\ invoked < MaxCalls
    /\ invoked' = invoked + 1
    /\ pending' = pending \cup { [id |-> invoked + 1, cmd |-> cmd, name |-> name] }
    /\ UNCHANGED << pc, plugins, handlers, runResult, panicMsg, responses >>

InvokeGreet == \E name \in Names : Invoke("greet", name)

InvokeOther == \E cmd \in Commands \ {"greet"} : Invoke(cmd, <<>>)

\* the run loop answers one pending invocation, in any order
Serve ==
    /\ CanDispatch
    /\ \E req \in pending :
          /\ pending' = pending \ {req}
          /\ responses' = responses \cup
                { [id |-> req.id, cmd |-> req.cmd, name |-> req.name,
                   kind |-> Dispatch(req).kind, value |-> Dispatch(req).value] }
    /\ UNCHANGED << pc, plugins, handlers, runResult, panicMsg, invoked >>

Next ==
    \/ PluginOpener
    \/ PluginFs
    \/ PluginUpdater
    \/ PluginProcess
    \/ PluginUpload
    \/ InvokeHandler
    \/ RunStartupFails
    \/ RunEnterLoop
    \/ RunLoopReturns
    \/ RunLoopExitsProcess
    \/ Expect
    \/ InvokeGreet
    \/ InvokeOther
    \/ Serve

Spec == Init /\ [][Next]_vars

GreetResponses == { r \in responses : r.cmd = "greet" }

Greeted(name) == \E r \in GreetResponses : r.name = name

(***************************************************************************)
(* Properties.                                                             *)
(***************************************************************************)

\* C1: every answer to greet(name) is exactly "Hello, " + name +
\* "! Welcome to Nova Launcher!": the name once, unmodified, between the fixed
\* prefix and the fixed suffix, nothing added; also for the empty name and
\* for names holding '{', '}', '!' or the text of the greeting.
C1_GreetExact ==
    \A r \in GreetResponses :
        /\ r.kind = "ok"
        /\ r.value = Prefix \o r.name \o Suffix

\* the empty name and the greeting's own format string have both been greeted
C1_Witness == Greeted(<<>>) /\ Greeted(Template)

\* C2: greet is total: every invocation of greet gets a greeting string,
\* never an error or a rejection, and no pending invocation is one greet
\* would refuse.
C2_GreetTotal ==
    /\ \A r \in GreetResponses : r.kind \notin {"err", "not_found"} /\ r.value # <<>>
    /\ \A req \in pending : req.cmd = "greet" => greet(req.name).ok

\* the empty name and the longest name have both been answered
C2_Witness ==
    /\ Greeted(<<>>)
    /\ \E r \in GreetResponses : Len(r.name) > MaxLen /\ r.kind = "ok"

SameNameSameAnswer ==
    \A r1, r2 \in GreetResponses :
        r1.name = r2.name => (r1.kind = r2.kind /\ r1.value = r2.value)

C4_StartupFailureFatal ==
    /\ [](pc = "panicked" => (runResult = "Err" /\ panicMsg = ExpectMsg))
    /\ [](pc = "returned" => (runResult = "Ok" /\ panicMsg = ""))
    /\ [](runResult = "Err" => pc \in {"expect", "panicked"})
    /\ [][runResult = "Err" => runResult' = "Err"]_vars
    /\ [][pc = "panicked" => pc' = "panicked"]_vars

\* run() has panicked after a failed startup
C4_Witness == pc = "panicked" /\ runResult = "Err" /\ panicMsg = ExpectMsg

HandlerRegistered ==
    pc \in {"run", "running", "expect", "returned", "panicked", "exited"}

PluginOrder == << "opener", "fs", "updater", "process", "upload" >>

LoopStarted == pc \in {"running", "expect", "returned", "panicked", "exited"}

SetupInOrder ==
    /\ \E n \in 0..Len(PluginOrder) : plugins = SubSeq(PluginOrder, 1, n)
    /\ handlers # {} => plugins = PluginOrder
    /\ pc \in {"run", "running"} => (plugins = PluginOrder /\ handlers = {"greet"})

\* C6: run() sets up sequentially: the five plugins once each in the order
\* opener, fs, updater, process, upload, then the greet handler, and only then
\* the run loop; nothing is registered once the run loop has been called.
C6_SequentialSetup ==
    /\ []SetupInOrder
    /\ [][(pc = "run" \/ LoopStarted) => UNCHANGED << plugins, handlers >>]_vars

\* the run loop is running with everything registered and has answered
C6_Witness == pc = "running" /\ plugins = PluginOrder /\ responses # {}

PrefixLen == 7

SuffixLen == 27

Strip(v) == SubSeq(v, PrefixLen + 1, Len(v) - SuffixLen)

\* C8: greet is injective and invertible: equal greetings come from equal
\* names, removing the 7-character prefix and the 27-character suffix gives
\* the name back, and a greeting is 34 characters longer than its name.
C8_GreetInjective ==
    /\ \A r1, r2 \in GreetResponses : r1.value = r2.value => r1.name = r2.name
    /\ \A r \in GreetResponses :
          /\ Strip(r.value) = r.name
          /\ Len(r.value) = Len(r.name) + PrefixLen + SuffixLen

\* a name and the same name between blanks have both been greeted
C8_Witness == Greeted(<< "A" >>) /\ Greeted(<< " ", "A", " " >>)

====
